---- MODULE Spec2Model ----
(***************************************************************************)
(* Model of incubator/truncated-values.ipynb: a notebook that censors a    *)
(* regression target at truncation_point, fits two bounded mixture models, *)
(* imputes the censored entries with truncnorm.rvs and np.put, and scores  *)
(* a regressor on the original and on the imputed target.                  *)
(*                                                                         *)
(* Real numbers are modelled as integers.  Arrays live in a heap of        *)
(* sequences and the notebook's names hold references into it, so that a   *)
(* write through one name is visible through every alias of it.            *)
(***************************************************************************)
EXTENDS Integers, Sequences, FiniteSets, TLC

VARIABLES pc, heap, X, y, data_trunc, trace1, trace2, comparison,
          impute, imputed_values, idxs, data_imp,
          scores_ori, scores_imp,
          cv_call, fold_pc, fold_split, fold_est, fold_score

vars == <<pc, heap, X, y, data_trunc, trace1, trace2, comparison,
          impute, imputed_values, idxs, data_imp,
          scores_ori, scores_imp,
          cv_call, fold_pc, fold_split, fold_est, fold_score>>

pipeVars == <<X, y, data_trunc, trace1, trace2, comparison,
              impute, imputed_values, idxs, data_imp>>

foldVars == <<cv_call, fold_pc, fold_split, fold_est, fold_score>>

-----------------------------------------------------------------------------
(* Bounds of the model and constants of the notebook *)

\* n_samples of make_regression (1000 in the notebook), bounded
NSamples == 2

\* n_samples of the runs in which the folds of one evaluation call interleave
CvSamples == 4

\* n_splits of ShuffleSplit (5 in the notebook), bounded
n_splits == 2

truncation_point == 2

\* y = y / 100
Divisor == 100

\* b = truncation_point * 20
UpperFactor == 20

None == "None"

\* target values on both sides of the boundary and on it
TargetValues == (truncation_point - 1)..(truncation_point + 1)

\* posterior means of mu, and of sig (HalfNormal prior: sig > 0)
Locations == -1..0

Scales == 1..2

\* one binary feature, alternating over the samples
FeatureValues == 0..1

FeatureMatrix(n) == [i \in 1..n |-> i % 2]

-----------------------------------------------------------------------------
(* numpy *)

\* a fresh array on the heap; its reference is Len(heap) + 1
Alloc(h, arr) == Append(h, arr)

NewRef(h) == Len(h) + 1

\* y / 100, element by element
Rescale(arr) == [i \in DOMAIN arr |-> arr[i] \div Divisor]

\* np.clip(arr, a_min=None, a_max=amax)
NpClipAsMin(arr, amax) == [i \in DOMAIN arr |-> IF arr[i] < amax THEN amax ELSE arr[i]]

NpClip(arr, amax) == [i \in DOMAIN arr |-> IF arr[i] > amax THEN amax ELSE arr[i]]

\* np.where(arr == val): the indices of the matching entries, ascending
RECURSIVE WhereFrom(_, _, _)
WhereFrom(arr, val, i) ==
    IF i > Len(arr) THEN <<>>
    ELSE IF arr[i] = val THEN <<i>> \o WhereFrom(arr, val, i + 1)
         ELSE WhereFrom(arr, val, i + 1)

NpWhereSkipFirst(arr, val) == WhereFrom(arr, val, 2)

NpWhere(arr, val) == WhereFrom(arr, val, 1)

\* len(arr[arr == val])
CountEqualUnmasked(arr, val) == Len(arr)

CountEqual(arr, val) == Cardinality({i \in DOMAIN arr : arr[i] = val})

\* np.put(arr, ind, v): arr[ind[k]] = v[k], v repeated if it is shorter than
\* ind, the last write winning; nothing is written when v is empty
PutValue(ind, v, i) ==
    LET k == CHOOSE k \in DOMAIN ind :
                 ind[k] = i /\ \A j \in DOMAIN ind : ind[j] = i => j <= k
    IN v[((k - 1) % Len(v)) + 1]

NpPutFirstValue(arr, ind, v) ==
    IF Len(v) = 0 THEN arr
    ELSE [i \in DOMAIN arr |-> IF \E k \in DOMAIN ind : ind[k] = i THEN v[1] ELSE arr[i]]

NpPutShifted(arr, ind, v) ==
    IF Len(v) = 0 THEN arr
    ELSE [i \in DOMAIN arr |->
            IF \E k \in DOMAIN ind : (ind[k] % Len(arr)) + 1 = i THEN v[1] ELSE arr[i]]

NpPut(arr, ind, v) ==
    IF Len(v) = 0 THEN arr
    ELSE [i \in DOMAIN arr |->
            IF \E k \in DOMAIN ind : ind[k] = i THEN PutValue(ind, v, i) ELSE arr[i]]

\* np.copy(h[ref]): a fresh array with the same entries, and its reference
NpCopyAlias(h, ref) == [heap |-> h, ref |-> ref]

NpCopy(h, ref) == [heap |-> Alloc(h, h[ref]), ref |-> NewRef(h)]

-----------------------------------------------------------------------------
(* scipy.stats.truncnorm *)

\* truncnorm takes a and b in units of scale around loc: the support of the
\* draws is [a * scale + loc, b * scale + loc]
RvsLow(a, loc, scale) == a * scale + loc

RvsHigh(b, loc, scale) == b * scale + loc

\* the draws of the model: the two ends of the support and a value inside it
RvsSupport(a, b, loc, scale) ==
    {v \in RvsLow(a, loc, scale)..RvsHigh(b, loc, scale) :
        v <= RvsLow(a, loc, scale) + 1 \/ v = RvsHigh(b, loc, scale)}

\* truncnorm.rvs(a, b, loc, scale, size): size independent draws
Rvs(a, b, loc, scale, size) == [1..size -> RvsSupport(a, b, loc, scale)]

-----------------------------------------------------------------------------
(* sklearn: ShuffleSplit, the regressor and the scorer *)

RECURSIVE SetSum(_, _)
SetSum(f, S) ==
    IF S = {} THEN 0
    ELSE LET i == CHOOSE i \in S : TRUE IN f[i] + SetSum(f, S \ {i})

\* ShuffleSplit holds out a fixed fraction of the samples (a tenth by
\* default); with the few samples of the model it holds out half of them, so
\* that both partitions are populated
TestCount(n) == IF n \div 2 = 0 THEN 1 ELSE n \div 2

\* the test partitions ShuffleSplit can produce; the rest is the train partition
Splits(n) == {S \in SUBSET (1..n) : Cardinality(S) = TestCount(n)}

TrainOf(n, test) == (1..n) \ test

\* est.fit(X[train], t[train]): a piecewise constant regressor, the mean of
\* the training targets that share the feature value (of all training targets
\* where none does)
Fit(x, t, train) ==
    [v \in FeatureValues |->
        LET same == {i \in train : x[i] = v}
        IN IF same # {} THEN SetSum(t, same) \div Cardinality(same)
           ELSE IF train # {} THEN SetSum(t, train) \div Cardinality(train)
           ELSE 0]

\* variance_explained(est, X[test], t[test]) =
\*   1 - var(preds - t) / var(t), kept as the fraction num / den with
\*   n^2 var(z) = n sum(z^2) - sum(z)^2; den = 0 is numpy's nan or inf
variance_explained(est, x, t, test) ==
    LET n == Cardinality(test)
        res == [i \in test |-> est[x[i]] - t[i]]
        sq(f) == [i \in test |-> f[i] * f[i]]
        nvar(f) == n * SetSum(sq(f), test) - SetSum(f, test) * SetSum(f, test)
    IN [num |-> nvar(t) - nvar(res), den |-> nvar(t)]

\* one fold run alone: clone the estimator, fit on the train partition, score
\* on the test partition
FoldAlone(x, t, test) ==
    variance_explained(Fit(x, t, TrainOf(Len(t), test)), x, t, test)

\* cross_val_score(rfr, X, t, cv=cv, scoring=variance_explained): one score
\* per split
CrossValScore(x, t, sp) == [f \in 1..n_splits |-> FoldAlone(x, t, sp[f])]

\* the score vectors one call can return, over the splits cv can produce
CrossValScores(x, t) ==
    [1..n_splits -> {FoldAlone(x, t, test) : test \in Splits(Len(t))}]

-----------------------------------------------------------------------------
(* The notebook, cell by cell *)

WaicValues == 0..1

Traces == [mu : Locations, sig : Scales, converged : BOOLEAN]

Init ==
    /\ pc = "generate"
    /\ heap = <<>>
    /\ X = <<>>
    /\ y = None
    /\ data_trunc = None
    /\ trace1 = None
    /\ trace2 = None
    /\ comparison = None
    /\ impute = None
    /\ imputed_values = <<>>
    /\ idxs = <<>>
    /\ data_imp = None
    /\ scores_ori = <<>>
    /\ scores_imp = <<>>
    /\ cv_call = "none"
    /\ fold_pc = <<>>
    /\ fold_split = <<>>
    /\ fold_est = <<>>
    /\ fold_score = <<>>

\* X, y = make_regression(...); y = y / 100
Generate ==
    /\ pc = "generate"
    /\ \E raw \in [1..NSamples -> {Divisor * v : v \in TargetValues}] :
          /\ heap' = Alloc(Alloc(heap, raw), Rescale(raw))
          /\ y' = NewRef(Alloc(heap, raw))
    /\ X' = FeatureMatrix(NSamples)
    /\ pc' = "clip"
    /\ UNCHANGED <<data_trunc, trace1, trace2, comparison, impute,
                   imputed_values, idxs, data_imp, scores_ori, scores_imp>>
    /\ UNCHANGED foldVars

\* data_trunc = np.concatenate([np.clip(y, a_min=None, a_max=truncation_point),])
Clip ==
    /\ pc = "clip"
    /\ LET clipped == NpClip(heap[y], truncation_point)
           h1 == Alloc(heap, clipped)
       IN /\ heap' = Alloc(h1, h1[NewRef(heap)])
          /\ data_trunc' = NewRef(h1)
    /\ pc' = "fit1"
    /\ UNCHANGED <<X, y, trace1, trace2, comparison, impute,
                   imputed_values, idxs, data_imp, scores_ori, scores_imp>>
    /\ UNCHANGED foldVars

\* with model1: trace1 = pm.sample(2000, njobs=1).  The sampler returns a
\* trace whether or not the chain converged; it reports divergences as
\* warnings.
Fit1 ==
    /\ pc = "fit1"
    /\ \E t \in Traces : trace1' = t
    /\ pc' = "fit2"
    /\ UNCHANGED <<heap, X, y, data_trunc, trace2, comparison, impute,
                   imputed_values, idxs, data_imp, scores_ori, scores_imp>>
    /\ UNCHANGED foldVars

\* with model2: trace2 = pm.sample(2000, njobs=1)
Fit2 ==
    /\ pc = "fit2"
    /\ \E t \in Traces : trace2' = t
    /\ pc' = "compare"
    /\ UNCHANGED <<heap, X, y, data_trunc, trace1, comparison, impute,
                   imputed_values, idxs, data_imp, scores_ori, scores_imp>>
    /\ UNCHANGED foldVars

\* pm.compare({model1: trace1, model2: trace2}): the table is displayed and
\* the reader adjudges whether the margin is negligible (equal criteria are)
Compare ==
    /\ pc = "compare"
    /\ \E w1 \in WaicValues, w2 \in WaicValues, neg \in BOOLEAN :
          /\ w1 = w2 => neg
          /\ comparison' = [Normal |-> w1, StudentT |-> w2, negligible |-> neg]
    /\ pc' = "select"
    /\ UNCHANGED <<heap, X, y, data_trunc, trace1, trace2, impute,
                   imputed_values, idxs, data_imp, scores_ori, scores_imp>>
    /\ UNCHANGED foldVars

\* impute_mu = trace1["Normal_mu"].mean(); impute_sig = trace1["Normal_sig"].mean()
Select ==
    /\ pc = "select"
    /\ impute' = [mu |-> trace1.mu, sig |-> trace1.sig]
    /\ pc' = "rvs"
    /\ UNCHANGED <<heap, X, y, data_trunc, trace1, trace2, comparison,
                   imputed_values, idxs, data_imp, scores_ori, scores_imp>>
    /\ UNCHANGED foldVars

\* imputed_values = truncnorm.rvs(a=truncation_point, b=truncation_point * 20,
\*     loc=impute_mu, scale=impute_sig,
\*     size=len(data_trunc[data_trunc == truncation_point]))
DrawImputed ==
    /\ pc = "rvs"
    /\ \E iv \in Rvs(truncation_point, truncation_point * UpperFactor,
                     impute.mu, impute.sig,
                     CountEqual(heap[data_trunc], truncation_point)) :
          imputed_values' = iv
    /\ pc' = "put"
    /\ UNCHANGED <<heap, X, y, data_trunc, trace1, trace2, comparison, impute,
                   idxs, data_imp, scores_ori, scores_imp>>
    /\ UNCHANGED foldVars

\* (idxs,) = np.where(data_trunc == truncation_point)
\* data_imp = np.copy(data_trunc)
\* np.put(data_imp, idxs, imputed_values)
PutImputed ==
    /\ pc = "put"
    /\ LET ix == NpWhere(heap[data_trunc], truncation_point)
           cp == NpCopy(heap, data_trunc)
       IN /\ idxs' = ix
          /\ data_imp' = cp.ref
          /\ heap' = [cp.heap EXCEPT ![cp.ref] = NpPut(@, ix, imputed_values)]
    /\ pc' = "cv_ori"
    /\ UNCHANGED <<X, y, data_trunc, trace1, trace2, comparison, impute,
                   imputed_values, scores_ori, scores_imp>>
    /\ UNCHANGED foldVars

\* scores_ori = cross_val_score(rfr, X, y, cv=cv, scoring=variance_explained, n_jobs=-1)
EvaluateOriginal ==
    /\ pc = "cv_ori"
    /\ scores_ori' \in CrossValScores(X, heap[y])
    /\ pc' = "cv_imp"
    /\ UNCHANGED <<heap, scores_imp>>
    /\ UNCHANGED pipeVars
    /\ UNCHANGED foldVars

\* scores_imp = cross_val_score(rfr, X, data_imp, cv=cv, scoring=variance_explained, n_jobs=-1)
EvaluateImputed ==
    /\ pc = "cv_imp"
    /\ scores_imp' \in CrossValScores(X, heap[data_imp])
    /\ pc' = "done"
    /\ UNCHANGED <<heap, scores_ori>>
    /\ UNCHANGED pipeVars
    /\ UNCHANGED foldVars

Next ==
    \/ Generate
    \/ Clip
    \/ Fit1
    \/ Fit2
    \/ Compare
    \/ Select
    \/ DrawImputed
    \/ PutImputed
    \/ EvaluateOriginal
    \/ EvaluateImputed

Spec == Init /\ [][Next]_vars

-----------------------------------------------------------------------------
(* One evaluation call, fold by fold.  cross_val_score hands every split to *)
(* a worker (n_jobs=-1); a worker clones the estimator, fits the clone on   *)
(* the train partition and scores it on the test partition, and the call    *)
(* returns the workers' scores in the order of the splits.                  *)

\* the target of the call under way
CvTarget == IF cv_call = "ori" THEN heap[y] ELSE heap[data_imp]

Folds == 1..n_splits

\* the estimator a fold fits and scores: its own clone of rfr
EstSlotShared(f) == 1

EstSlot(f) == f

\* the state of the folds when the call has handed them out
Dispatched(call) ==
    /\ cv_call = call
    /\ fold_pc = [f \in Folds |-> "pending"]
    /\ fold_split = [f \in Folds |-> {}]
    /\ fold_est = [f \in Folds |-> None]
    /\ fold_score = [f \in Folds |-> None]

\* the state in which an evaluation call starts: the cells before it have
\* run on CvSamples samples, with every censored entry imputed by the low
\* end of the support
InitCV ==
    \E t \in [1..CvSamples -> {truncation_point - 1, truncation_point + 1}],
       call \in {"ori", "imp"} :
        LET raw == [i \in 1..CvSamples |-> Divisor * t[i]]
            clipped == NpClip(t, truncation_point)
            ix == NpWhere(clipped, truncation_point)
            est == [mu |-> 0, sig |-> 1]
            iv == [k \in 1..Len(ix) |-> RvsLow(truncation_point, est.mu, est.sig)]
        IN /\ heap = <<raw, Rescale(raw), clipped, clipped, NpPut(clipped, ix, iv)>>
           /\ X = FeatureMatrix(CvSamples)
           /\ y = 2
           /\ data_trunc = 4
           /\ data_imp = 5
           /\ trace1 = [mu |-> est.mu, sig |-> est.sig, converged |-> TRUE]
           /\ trace2 = [mu |-> est.mu, sig |-> est.sig, converged |-> TRUE]
           /\ comparison = [Normal |-> 0, StudentT |-> 0, negligible |-> TRUE]
           /\ impute = est
           /\ imputed_values = iv
           /\ idxs = ix
           /\ scores_imp = <<>>
           /\ IF call = "ori"
              THEN pc = "cv_ori" /\ scores_ori = <<>>
              ELSE /\ pc = "cv_imp"
                   /\ scores_ori =
                        CrossValScore(X, t, [f \in Folds |-> 1..TestCount(CvSamples)])
           /\ Dispatched(call)

\* a worker draws its split and fits its estimator on the train partition
FoldFit(f) ==
    /\ cv_call # "none"
    /\ fold_pc[f] = "pending"
    /\ \E test \in Splits(Len(CvTarget)) :
          /\ fold_split' = [fold_split EXCEPT ![f] = test]
          /\ fold_est' = [fold_est EXCEPT
                ![EstSlot(f)] = Fit(X, CvTarget, TrainOf(Len(CvTarget), test))]
    /\ fold_pc' = [fold_pc EXCEPT ![f] = "fitted"]
    /\ UNCHANGED <<pc, heap, scores_ori, scores_imp, cv_call, fold_score>>
    /\ UNCHANGED pipeVars

\* the worker scores its estimator on the test partition
FoldScore(f) ==
    /\ cv_call # "none"
    /\ fold_pc[f] = "fitted"
    /\ fold_score' = [fold_score EXCEPT
          ![f] = variance_explained(fold_est[EstSlot(f)], X, CvTarget, fold_split[f])]
    /\ fold_pc' = [fold_pc EXCEPT ![f] = "scored"]
    /\ UNCHANGED <<pc, heap, scores_ori, scores_imp, cv_call, fold_split, fold_est>>
    /\ UNCHANGED pipeVars

\* the call returns the scores of its folds, in the order of the splits
Collect ==
    /\ cv_call # "none"
    /\ \A f \in Folds : fold_pc[f] = "scored"
    /\ IF cv_call = "ori"
       THEN scores_ori' = fold_score /\ pc' = "cv_imp" /\ UNCHANGED scores_imp
       ELSE scores_imp' = fold_score /\ pc' = "done" /\ UNCHANGED scores_ori
    /\ cv_call' = "none"
    /\ UNCHANGED <<heap, fold_pc, fold_split, fold_est, fold_score>>
    /\ UNCHANGED pipeVars

NextCV ==
    \/ \E f \in Folds : FoldFit(f)
    \/ \E f \in Folds : FoldScore(f)
    \/ Collect

SpecCV == InitCV /\ [][NextCV]_vars

-----------------------------------------------------------------------------
(* Properties *)

Array(ref) == heap[ref]

Censored == {i \in DOMAIN Array(data_trunc) : Array(data_trunc)[i] = truncation_point}

Observed == {i \in DOMAIN Array(data_trunc) : Array(data_trunc)[i] < truncation_point}

Clipped == pc \notin {"generate", "clip"}

Fitted1 == pc \notin {"generate", "clip", "fit1"}

Fitted2 == Fitted1 /\ pc # "fit2"

Selected == pc \in {"rvs", "put", "cv_ori", "cv_imp", "done"}

Imputed == pc \in {"cv_ori", "cv_imp", "done"}

\* C1: after the imputation step every entry that was at the boundary in
\* data_trunc holds a value >= the boundary in data_imp.
C1_CensoredAtLeastBoundary ==
    Imputed => \A i \in Censored : Array(data_imp)[i] >= truncation_point

\* C2: the imputation step leaves every observed entry untouched, and data_imp
\* is as long as data_trunc.
C2_ObservedUntouched ==
    Imputed =>
        /\ Len(Array(data_imp)) = Len(Array(data_trunc))
        /\ \A i \in Observed : Array(data_imp)[i] = Array(data_trunc)[i]

C2_Witness ==
    /\ Imputed
    /\ Observed # {}
    /\ \E i \in Censored : Array(data_imp)[i] # Array(data_trunc)[i]

\* C3: data_trunc[i] = min(y[i], truncation_point) for every i: no entry is
\* above the boundary and a true value at or below it is kept.
C3_CensoringIsMin ==
    Clipped =>
        /\ Len(Array(data_trunc)) = Len(Array(y))
        /\ \A i \in DOMAIN Array(y) :
              /\ Array(data_trunc)[i] <= truncation_point
              /\ Array(data_trunc)[i] <= Array(y)[i]
              /\ Array(data_trunc)[i] \in {Array(y)[i], truncation_point}
              /\ Array(y)[i] <= truncation_point => Array(data_trunc)[i] = Array(y)[i]

C3_Witness ==
    /\ Clipped
    /\ \E i \in DOMAIN Array(y) : Array(y)[i] > truncation_point
    /\ \E i \in DOMAIN Array(y) : Array(y)[i] < truncation_point

\* C4: the estimate used for imputation comes from the trace of the family
\* the comparison selects: the lower criterion, or the family with fewer
\* parameters (Normal) when the margin is negligible.
C4_EstimateFromSelectedModel ==
    Selected =>
        LET chosen == IF comparison.negligible \/ comparison.Normal < comparison.StudentT
                      THEN trace1 ELSE trace2
        IN impute.mu = chosen.mu /\ impute.sig = chosen.sig

\* C5: a fit that did not converge ends the run: neither the imputation step
\* nor the evaluation is reached.
C5_NonConvergenceIsTerminal ==
    ((Fitted1 /\ ~trace1.converged) \/ (Fitted2 /\ ~trace2.converged)) => ~Selected

\* C6: with no entry of data_trunc at the boundary the imputation step draws
\* nothing and data_imp equals data_trunc.
C6_NothingToImpute ==
    (Imputed /\ Censored = {}) =>
        /\ imputed_values = <<>>
        /\ idxs = <<>>
        /\ Array(data_imp) = Array(data_trunc)

C6_Witness == Imputed /\ Censored = {} /\ pc = "done"

\* C7: as many values are drawn as entries are at the boundary, and the k-th
\* draw is written to the k-th such entry: every censored index receives its
\* own draw and no draw is left over.
C7_OneDrawPerCensoredEntry ==
    Imputed =>
        /\ Len(imputed_values) = Cardinality(Censored)
        /\ Len(imputed_values) = Len(idxs)
        /\ {idxs[k] : k \in DOMAIN idxs} = Censored
        /\ \A j, k \in DOMAIN idxs : idxs[j] = idxs[k] => j = k
        /\ \A k \in DOMAIN idxs : Array(data_imp)[idxs[k]] = imputed_values[k]

C7_Witness ==
    /\ Imputed
    /\ Len(idxs) >= 2
    /\ imputed_values[1] # imputed_values[2]

\* C8: once generated and rescaled, y never changes, and once censored,
\* data_trunc never changes: the imputation writes to the copy data_imp only.
C8_GroundTruthImmutable ==
    [][/\ pc # "generate" => Array(y)' = Array(y)
       /\ Clipped => Array(data_trunc)' = Array(data_trunc)]_vars

C8_Witness ==
    /\ pc = "done"
    /\ Array(data_imp) # Array(data_trunc)
    /\ Array(data_trunc) # Array(y)

C10_ReplacedIffAtOrAboveBoundary ==
    Imputed =>
        /\ {idxs[k] : k \in DOMAIN idxs} =
              {i \in DOMAIN Array(y) : Array(y)[i] >= truncation_point}
        /\ \A i \in DOMAIN Array(y) :
              IF Array(y)[i] >= truncation_point
              THEN \E k \in DOMAIN idxs : idxs[k] = i /\ Array(data_imp)[i] = imputed_values[k]
              ELSE Array(data_imp)[i] = Array(y)[i]

C10_Witness ==
    /\ Imputed
    /\ \E i \in DOMAIN Array(y) :
          /\ Array(y)[i] = truncation_point
          /\ Array(data_imp)[i] # truncation_point
    /\ \E i \in DOMAIN Array(y) : Array(y)[i] < truncation_point

====
